---- MODULE Spec2Model ----
(***************************************************************************)
(* Model of pkg/dockerregistry/server/remoteblobgetter.go: the             *)
(* remoteBlobGetterService, which locates a blob digest in the remote      *)
(* repositories referenced by an image stream and serves it from there.    *)
(***************************************************************************)
EXTENDS Integers, Sequences, FiniteSets, TLC

(***************************************************************************)
(* Bounds of the model.                                                    *)
(***************************************************************************)
\* number of calls made on one remoteBlobGetterService instance
MaxCalls == 2
\* length of the slice returned by cachedLayers.RepositoriesForDigest
MaxCached == 2
MaxEvents == 4

(***************************************************************************)
(* Values.                                                                 *)
(***************************************************************************)
Digests == {"sha256:d1", "sha256:d2"}

Ops == {"Stat", "Get", "Open", "ServeBlob"}
ReadOps == {"Get", "Open", "ServeBlob"}

\* the goroutines that may call into one instance
Callers == {"g1", "g2"}

nil == "nil"
ErrBlobUnknown == "ErrBlobUnknown"
\* errors.IsNotFound / errors.IsForbidden / any other API error
ErrNotFound == "NotFound"
ErrForbidden == "Forbidden"
ErrInternal == "InternalError"
ImageStreamErrors == {ErrNotFound, ErrForbidden, ErrInternal}
\* errors of retriever.Repository and of the remote Stat; ErrTransport is any
\* error other than ErrBlobUnknown (transport, authentication, cancelled context)
ErrTransport == "ErrTransport"
ProbeErrors == {ErrBlobUnknown, ErrTransport}

InsecureRepositoryAnnotation == "openshift.io/image.insecureRepository"

blobrepositorycachettl == 600

(***************************************************************************)
(* Image references.  A reference string is kept as its "/"-separated      *)
(* path and its ":tag" suffix.                                             *)
(***************************************************************************)
DockerDefaultRegistry == "docker.io"
DockerDefaultNamespace == "library"
DefaultImageTag == "latest"

rEmpty == [path |-> <<>>, tag |-> ""]
rLocalIS == [path |-> <<"local:5000", "ns", "is">>, tag |-> ""]
rL == [path |-> <<"local:5000", "ns", "l">>, tag |-> ""]
rA == [path |-> <<"ns", "a">>, tag |-> ""]
rA2 == [path |-> <<"docker.io", "ns", "a">>, tag |-> "v1"]
rB == [path |-> <<"quay.io", "ns", "b">>, tag |-> ""]

\* imageapi.ParseDockerImageReference
ParseDockerImageReference(spec) ==
    LET n == Len(spec.path) IN
    IF n = 3
    THEN [err |-> nil,
          ref |-> [Registry |-> spec.path[1], Namespace |-> spec.path[2],
                   Name |-> spec.path[3], Tag |-> spec.tag]]
    ELSE IF n = 2
    THEN [err |-> nil,
          ref |-> [Registry |-> "", Namespace |-> spec.path[1],
                   Name |-> spec.path[2], Tag |-> spec.tag]]
    ELSE IF n = 1
    THEN [err |-> nil,
          ref |-> [Registry |-> "", Namespace |-> "",
                   Name |-> spec.path[1], Tag |-> spec.tag]]
    ELSE [err |-> "ParseError",
          ref |-> [Registry |-> "", Namespace |-> "", Name |-> "", Tag |-> ""]]

\* DockerImageReference.DockerClientDefaults
DockerClientDefaults(ref) ==
    LET reg == IF ref.Registry = "" THEN DockerDefaultRegistry ELSE ref.Registry
        ns == IF ref.Namespace = "" /\ reg = DockerDefaultRegistry
              THEN DockerDefaultNamespace ELSE ref.Namespace
        tag == IF ref.Tag = "" THEN DefaultImageTag ELSE ref.Tag
    IN [Registry |-> reg, Namespace |-> ns, Name |-> ref.Name, Tag |-> tag]

\* DockerImageReference.AsRepository: the reference without tag
AsRepository(ref) == [ref EXCEPT !.Tag = ""]

\* DockerImageReference.Exact: registry/namespace/name[:tag]
Exact(ref) ==
    IF ref.Tag = "" THEN <<ref.Registry, ref.Namespace, ref.Name>>
    ELSE <<ref.Registry, ref.Namespace, ref.Name, ref.Tag>>

\* DockerImageReference.RegistryURL
RegistryURL(ref) ==
    IF ref.Registry = DockerDefaultRegistry
    THEN <<"https", "registry-1.docker.io">>
    ELSE <<"https", ref.Registry>>

\* DockerImageReference.RepositoryName
RepositoryName(ref) ==
    IF ref.Namespace = "" THEN <<ref.Name>> ELSE <<ref.Namespace, ref.Name>>

(***************************************************************************)
(* Go maps are functions on the set of their keys.                         *)
(***************************************************************************)
EmptyMap == [k \in {} |-> k]
MapPut(m, key, v) == [k \in DOMAIN m \cup {key} |-> IF k = key THEN v ELSE m[k]]
\* a delete that leaves the map as it is
MapKeep(m, key) == m

MapDelete(m, key) == [k \in DOMAIN m \ {key} |-> m[k]]
MapLen(m) == Cardinality(DOMAIN m)

\* the sequences over S of length at most n
SeqsUpTo(S, n) == UNION {[1..k -> S] : k \in 0..n}

\* the orders in which a range loop may visit the keys S of a map
Orders(S) == {o \in [1..Cardinality(S) -> S] : \A i, j \in DOMAIN o : i # j => o[i] # o[j]}

(***************************************************************************)
(* identifyCandidateRepositories (lines 207-238).                          *)
(***************************************************************************)
\* a secondary search that takes the events from the first one on
CandidatesFromFirst(Items, primary) ==
    IF Len(Items) = 0 THEN <<>>
    ELSE IF primary THEN SubSeq(Items, 1, 1) ELSE Items

\* lines 211-222: the events of one tag that are candidates
Candidates(Items, primary) ==
    IF primary
    THEN IF Len(Items) = 0 THEN <<>> ELSE SubSeq(Items, 1, 1)
    ELSE IF Len(Items) <= 1 THEN <<>> ELSE SubSeq(Items, 2, Len(Items))

\* a local reference that is searched like a remote one
MatchesNothing(localRegistry, ref) == FALSE

\* line 230: the reference matches the innate registry
MatchesLocalRegistry(localRegistry, ref) ==
    Len(localRegistry) # 0 /\ localRegistry = ref.Registry

\* lines 223-235: the loop over the candidate events of one tag
RECURSIVE AddCandidates(_, _, _)
AddCandidates(search, candidates, localRegistry) ==
    IF candidates = <<>> THEN search
    ELSE LET event == Head(candidates)
             parsed == ParseDockerImageReference(event.DockerImageReference)
             ref == DockerClientDefaults(parsed.ref)
             next == IF parsed.err # nil THEN search
                     ELSE IF MatchesLocalRegistry(localRegistry, parsed.ref)
                          THEN search
                          ELSE MapPut(search, Exact(AsRepository(ref)), ref)
         IN AddCandidates(next, Tail(candidates), localRegistry)

\* lines 210-236: the loop over is.Status.Tags, visited in the order tagOrder
RECURSIVE RangeTags(_, _, _, _, _)
RangeTags(search, Tags, tagOrder, localRegistry, primary) ==
    IF tagOrder = <<>> THEN search
    ELSE RangeTags(AddCandidates(search,
                                 Candidates(Tags[Head(tagOrder)].Items, primary),
                                 localRegistry),
                   Tags, Tail(tagOrder), localRegistry, primary)

identifyCandidateRepositories(is, localRegistry, primary, tagOrder) ==
    RangeTags(EmptyMap, is.Status.Tags, tagOrder, localRegistry, primary)

\* a Stat that does not learn the registry of the image stream
LocalRegistryUnknown(is) == ""

\* lines 53-57 of Stat
LocalRegistry(is) ==
    LET local == ParseDockerImageReference(is.Status.DockerImageRepository)
    IN IF local.err = nil THEN local.ref.Registry ELSE ""

(***************************************************************************)
(* The image streams rbs.repo.getImageStream may return.                   *)
(***************************************************************************)
TagEvent(spec) == [DockerImageReference |-> spec]
TagEventList(s) == [Items |-> [i \in DOMAIN s |-> TagEvent(s[i])]]

TagMaps ==
    { EmptyMap,
      [t \in {"t1", "t2"} |-> TagEventList(IF t = "t1" THEN <<>> ELSE <<rEmpty, rL>>)],
      [t \in {"t1", "t2"} |-> TagEventList(IF t = "t1" THEN <<rA, rB>> ELSE <<rB, rA2>>)],
      [t \in {"t1"} |-> TagEventList(<<rA, rB, rL>>)] }

AnnotationMaps ==
    {EmptyMap} \cup {[a \in {InsecureRepositoryAnnotation} |-> v] : v \in {"true", "false"}}

\* Status.DockerImageRepository is empty until the image stream has been given
\* its status
ImageStreams ==
    { [Annotations |-> a, Status |-> [DockerImageRepository |-> rLocalIS, Tags |-> t]] :
        a \in AnnotationMaps, t \in TagMaps }
    \cup
    { [Annotations |-> EmptyMap, Status |-> [DockerImageRepository |-> rEmpty, Tags |-> t]] :
        t \in TagMaps }

\* the keys cachedLayers.RepositoriesForDigest may report
RepositoryKeys ==
    { Exact(AsRepository(DockerClientDefaults(ParseDockerImageReference(r).ref))) :
        r \in {rA, rB} }

CachedLayers == SeqsUpTo(RepositoryKeys, MaxCached)

(***************************************************************************)
(* The remote side of a probe: retriever.Repository and the Stat of the    *)
(* remote blob store either fail, or return a descriptor.                  *)
(***************************************************************************)
ProbeOutcomes(dgst) ==
    {[err |-> e, Digest |-> dgst] : e \in ProbeErrors}
        \cup {[err |-> nil, Digest |-> d] : d \in Digests}

\* retriever.Repository(ctx, url, name, insecure).Blobs(ctx): the remote blob store
Blobs(ref) == [url |-> RegistryURL(ref), name |-> RepositoryName(ref)]

(***************************************************************************)
(* State.  call holds the locals of a call in progress; ret, trace and     *)
(* statted record what a call returned and did, for the properties below.  *)
(***************************************************************************)
VARIABLES
    digestToStore,               \* rbs.digestToStore
    pullFromInsecureRegistries,  \* rbs.pullFromInsecureRegistries
    pc,                          \* where each caller is: "idle", "find", "done"
    call,                        \* the locals of each caller's call
    ret,                         \* what each caller's call returned
    trace,                       \* what each caller's call did to its collaborators
    statted,                     \* the digests of which a Stat has returned a descriptor
    ncalls                       \* calls made on the instance so far

vars == <<digestToStore, pullFromInsecureRegistries, pc, call, ret, trace, statted, ncalls>>

NoImageStream == [Annotations |-> EmptyMap,
                  Status |-> [DockerImageRepository |-> rEmpty, Tags |-> EmptyMap]]

NoCall == [op |-> "", dgst |-> "", is |-> NoImageStream, localRegistry |-> "",
           cached |-> <<>>, search |-> EmptyMap, primary |-> TRUE,
           hints |-> <<>>, ranging |-> FALSE, remaining |-> {}]

\* fetches: calls of getImageStream, and isErr the error of it; cacheReads: calls of
\* RepositoriesForDigest; probes: calls of retriever.Repository with what the probe
\* returned; remembers: calls of RememberDigest; store0, insecure0: the fields of
\* rbs when the call was made; overlapped: another call was in progress at some
\* time of the call
NoTrace == [fetches |-> 0, isErr |-> nil, cacheReads |-> 0, probes |-> <<>>,
            remembers |-> <<>>, store0 |-> EmptyMap, insecure0 |-> FALSE,
            overlapped |-> FALSE]

\* err, desc: the result of the call (desc of Stat only); delegated: the blob store
\* and the digest a Get, Open or ServeBlob was handed to; stat: the result of the
\* Stat the call ran
NoRet == [err |-> nil, desc |-> <<>>, delegated |-> <<>>, stat |-> <<>>]

Init ==
    /\ digestToStore = EmptyMap
    /\ pullFromInsecureRegistries = FALSE
    /\ pc = [c \in Callers |-> "idle"]
    /\ call = [c \in Callers |-> NoCall]
    /\ ret = [c \in Callers |-> NoRet]
    /\ trace = [c \in Callers |-> NoTrace]
    /\ statted = {}
    /\ ncalls = 0

(***************************************************************************)
(* Helpers of the actions.                                                 *)
(***************************************************************************)
\* a proxyStat that saves the store before it tests the error of the probe
proxyStatAlways(store, ref, dgst, out) == MapPut(store, dgst, Blobs(ref))

\* a proxyStat that keeps the store a digest already has
proxyStatKeepsFirst(store, ref, dgst, out) ==
    IF out.err # nil \/ dgst \in DOMAIN store THEN store ELSE MapPut(store, dgst, Blobs(ref))

\* a proxyStat that saves the store under the digest of the descriptor
proxyStatByDescriptor(store, ref, dgst, out) ==
    IF out.err # nil THEN store ELSE MapPut(store, out.Digest, Blobs(ref))

\* proxyStat (lines 122-146): rbs.digestToStore after a probe of ref with outcome out
proxyStat(store, ref, dgst, out) ==
    IF out.err # nil THEN store ELSE MapPut(store, dgst, Blobs(ref))

\* the call retriever.Repository(ctx, ref.RegistryURL(), ref.RepositoryName(), insecure)
\* of line 127 and what the probe returned, as recorded in trace
ProbeRecord(repo, ref, insecure, primary, hinted, out) ==
    [repo |-> repo, url |-> RegistryURL(ref), name |-> RepositoryName(ref),
     insecure |-> insecure, primary |-> primary, hinted |-> hinted, err |-> out.err,
     Digest |-> out.Digest]

\* a RememberDigest placed before the test of the probe's error
RemembersAlways(err) == TRUE

\* lines 195-198: RememberDigest is reached when the probe returned no error
Remembers(err) == err = nil

\* Get (lines 155-166), Open (86-97), ServeBlob (106-117) once the inner Stat returned
ReadAfterStat(store, desc, err) ==
    IF err # nil
    THEN [err |-> err, delegated |-> <<>>]
    ELSE IF desc \notin DOMAIN store
         THEN [err |-> ErrBlobUnknown, delegated |-> <<>>]
         ELSE [err |-> nil, delegated |-> <<[store |-> store[desc], dgst |-> desc]>>]

\* what the call op returns once its Stat returned (desc, err), rbs.digestToStore being store
Returned(op, store, desc, err) ==
    LET stat == [err |-> err, desc |-> IF err = nil THEN <<desc>> ELSE <<>>]
        read == ReadAfterStat(store, desc, err)
    IN IF op = "Stat"
       THEN [err |-> stat.err, desc |-> stat.desc, delegated |-> <<>>, stat |-> <<stat>>]
       ELSE [err |-> read.err, desc |-> <<>>, delegated |-> read.delegated, stat |-> <<stat>>]

\* a Stat that returns every error of getImageStream as it is
ImageStreamErrorUnmapped(e) == e

\* lines 38-45: the error of Stat when getImageStream failed with e
ImageStreamError(e) ==
    IF e = ErrNotFound \/ e = ErrForbidden THEN ErrBlobUnknown ELSE e

\* a Stat without the reset of line 47
InsecureFlagNoReset(is) ==
    IF InsecureRepositoryAnnotation \in DOMAIN is.Annotations
    THEN is.Annotations[InsecureRepositoryAnnotation] = "true"
    ELSE pullFromInsecureRegistries

\* lines 47-51: rbs.pullFromInsecureRegistries as set from the image stream
InsecureFlag(is) ==
    IF InsecureRepositoryAnnotation \in DOMAIN is.Annotations
    THEN is.Annotations[InsecureRepositoryAnnotation] = "true"
    ELSE FALSE

\* a findCandidateRepository that leaves the cached repositories out
SkipAll(hints, search) == <<>>

\* lines 178-182: the cached repositories still to visit, those not in search skipped
RECURSIVE SkipMisses(_, _)
SkipMisses(hints, search) ==
    IF hints = <<>> THEN <<>>
    ELSE IF Head(hints) \in DOMAIN search THEN hints
         ELSE SkipMisses(Tail(hints), search)

\* lines 69-72: the secondary candidates, less the keys of search
Secondary(is, localRegistry, search, tagOrder) ==
    LET secondary == identifyCandidateRepositories(is, localRegistry, FALSE, tagOrder)
    IN [k \in DOMAIN secondary \ DOMAIN search |-> secondary[k]]

\* a findCandidateRepository without the loop over search
RemainingNone(cl) == {}

\* the keys the range loop of line 193 has still to visit
Remaining(cl) == IF cl.ranging THEN cl.remaining ELSE DOMAIN cl.search

\* a findCandidateRepository that gives up after the cached repositories
NotFoundAfterHints(cl) ==
    \/ MapLen(cl.search) = 0
    \/ SkipMisses(cl.hints, cl.search) = <<>>

\* findCandidateRepository found nothing (lines 172-174, 203)
NotFound(cl) ==
    \/ MapLen(cl.search) = 0
    \/ SkipMisses(cl.hints, cl.search) = <<>> /\ Remaining(cl) = {}

TagOrders(is) == Orders(DOMAIN is.Status.Tags)

(***************************************************************************)
(* Actions.  c is the caller.                                              *)
(***************************************************************************)
CanCall(c) == pc[c] = "idle" /\ ncalls < MaxCalls

\* a Get, Open, ServeBlob without the lookup of rbs.digestToStore
EntersStatAlways(op, dgst) == TRUE

\* Stat is entered: directly, or from Get, Open, ServeBlob without an entry
\* (lines 81-86, 101-106, 150-155)
EntersStat(op, dgst) == op = "Stat" \/ dgst \notin DOMAIN digestToStore

\* the trace of a call that begins
NewTrace == [NoTrace EXCEPT !.store0 = digestToStore,
                            !.insecure0 = pullFromInsecureRegistries,
                            !.overlapped = \E o \in Callers : pc[o] # "idle"]

\* trace once the call of c has begun with the trace t: the calls in progress are
\* overlapped by it
Begun(c, t) ==
    [o \in Callers |->
        IF o = c THEN t
        ELSE IF pc[o] # "idle" THEN [trace[o] EXCEPT !.overlapped = TRUE]
        ELSE trace[o]]

\* Get, Open, ServeBlob with an entry in rbs.digestToStore (lines 81-84, 101-104, 150-153)
Delegate(c, op, dgst) ==
    /\ CanCall(c)
    /\ op \in ReadOps
    /\ dgst \in DOMAIN digestToStore
    /\ pc' = [pc EXCEPT ![c] = "done"]
    /\ call' = [call EXCEPT ![c] = [NoCall EXCEPT !.op = op, !.dgst = dgst]]
    /\ ret' = [ret EXCEPT ![c] =
                 [NoRet EXCEPT !.delegated =
                                  <<[store |-> digestToStore[dgst], dgst |-> dgst]>>]]
    /\ trace' = Begun(c, NewTrace)
    /\ ncalls' = ncalls + 1
    /\ UNCHANGED <<digestToStore, pullFromInsecureRegistries, statted>>

\* Stat, getImageStream fails (lines 38-45)
StatNoImageStream(c, op, dgst, e) ==
    /\ CanCall(c)
    /\ EntersStat(op, dgst)
    /\ pc' = [pc EXCEPT ![c] = "done"]
    /\ call' = [call EXCEPT ![c] = [NoCall EXCEPT !.op = op, !.dgst = dgst]]
    /\ ret' = [ret EXCEPT ![c] = Returned(op, digestToStore, dgst, ImageStreamError(e))]
    /\ trace' = Begun(c, [NewTrace EXCEPT !.fetches = 1, !.isErr = e])
    /\ ncalls' = ncalls + 1
    /\ UNCHANGED <<digestToStore, pullFromInsecureRegistries, statted>>

\* Stat up to the first call of findCandidateRepository (lines 38-64)
StatBegin(c, op, dgst, is, cached, tagOrder) ==
    /\ CanCall(c)
    /\ EntersStat(op, dgst)
    /\ pullFromInsecureRegistries' = InsecureFlag(is)
    /\ pc' = [pc EXCEPT ![c] = "find"]
    /\ call' = [call EXCEPT ![c] =
                  [op |-> op, dgst |-> dgst, is |-> is,
                   localRegistry |-> LocalRegistry(is), cached |-> cached,
                   search |-> identifyCandidateRepositories(is, LocalRegistry(is), TRUE,
                                                            tagOrder),
                   primary |-> TRUE, hints |-> cached, ranging |-> FALSE,
                   remaining |-> {}]]
    /\ ret' = [ret EXCEPT ![c] = NoRet]
    /\ trace' = Begun(c, [NewTrace EXCEPT !.fetches = 1, !.cacheReads = 1])
    /\ ncalls' = ncalls + 1
    /\ UNCHANGED <<digestToStore, statted>>

\* a loop over cachedLayers that goes on after a probe that succeeded
ProbeCachedGoesOn(c, out) ==
    LET cl == call[c]
        hints == SkipMisses(cl.hints, cl.search)
        repo == Head(hints)
        ref == cl.search[repo]
    IN /\ pc[c] = "find"
       /\ MapLen(cl.search) # 0
       /\ ~cl.ranging
       /\ hints # <<>>
       /\ digestToStore' = proxyStat(digestToStore, ref, cl.dgst, out)
       /\ trace' = [trace EXCEPT ![c].probes =
                      Append(@, ProbeRecord(repo, ref, pullFromInsecureRegistries,
                                            cl.primary, TRUE, out))]
       /\ call' = [call EXCEPT ![c].search = MapDelete(cl.search, repo),
                               ![c].hints = Tail(hints)]
       /\ UNCHANGED <<pc, ret, pullFromInsecureRegistries, statted, ncalls>>

\* findCandidateRepository, one turn of the loop over cachedLayers (lines 178-190)
ProbeCached(c, out) ==
    LET cl == call[c]
        hints == SkipMisses(cl.hints, cl.search)
        repo == Head(hints)
        ref == cl.search[repo]
        store == proxyStat(digestToStore, ref, cl.dgst, out)
    IN /\ pc[c] = "find"
       /\ MapLen(cl.search) # 0
       /\ ~cl.ranging
       /\ hints # <<>>
       /\ digestToStore' = store
       /\ trace' = [trace EXCEPT ![c].probes =
                      Append(@, ProbeRecord(repo, ref, pullFromInsecureRegistries,
                                            cl.primary, TRUE, out))]
       /\ IF out.err # nil
          THEN /\ call' = [call EXCEPT ![c].search = MapDelete(cl.search, repo),
                                       ![c].hints = Tail(hints)]
               /\ UNCHANGED <<pc, ret>>
          ELSE /\ pc' = [pc EXCEPT ![c] = "done"]
               /\ ret' = [ret EXCEPT ![c] = Returned(cl.op, store, out.Digest, nil)]
               /\ UNCHANGED call
       /\ UNCHANGED <<pullFromInsecureRegistries, statted, ncalls>>

\* findCandidateRepository, one turn of the loop over search (lines 193-201)
ProbeSearch(c, repo, out) ==
    LET cl == call[c]
        ref == cl.search[repo]
        store == proxyStat(digestToStore, ref, cl.dgst, out)
    IN /\ pc[c] = "find"
       /\ MapLen(cl.search) # 0
       /\ SkipMisses(cl.hints, cl.search) = <<>>
       /\ repo \in Remaining(cl)
       /\ digestToStore' = store
       /\ trace' = [trace EXCEPT
                      ![c].probes =
                          Append(@, ProbeRecord(repo, ref, pullFromInsecureRegistries,
                                                cl.primary, FALSE, out)),
                      ![c].remembers =
                          IF Remembers(out.err)
                          THEN Append(@, <<cl.dgst, blobrepositorycachettl, repo>>)
                          ELSE @]
       /\ IF out.err # nil
          THEN /\ call' = [call EXCEPT ![c].hints = <<>>, ![c].ranging = TRUE,
                                       ![c].remaining = Remaining(cl) \ {repo}]
               /\ UNCHANGED <<pc, ret>>
          ELSE /\ pc' = [pc EXCEPT ![c] = "done"]
               /\ ret' = [ret EXCEPT ![c] = Returned(cl.op, store, out.Digest, nil)]
               /\ UNCHANGED call
       /\ UNCHANGED <<pullFromInsecureRegistries, statted, ncalls>>

\* Stat, the first findCandidateRepository failed: the second one is called (lines 66-73)
StatSecondary(c, tagOrder) ==
    LET cl == call[c] IN
    /\ pc[c] = "find"
    /\ cl.primary
    /\ NotFound(cl)
    /\ call' = [call EXCEPT ![c].search = Secondary(cl.is, cl.localRegistry, cl.search,
                                                    tagOrder),
                            ![c].primary = FALSE, ![c].hints = cl.cached,
                            ![c].ranging = FALSE, ![c].remaining = {}]
    /\ UNCHANGED <<digestToStore, pullFromInsecureRegistries, pc, ret, trace, statted,
                   ncalls>>

\* a Stat that returns the error of its last probe
StatLastError(c) ==
    LET cl == call[c]
        probes == trace[c].probes
        err == IF probes = <<>> THEN ErrBlobUnknown ELSE probes[Len(probes)].err
    IN
    /\ pc[c] = "find"
    /\ ~cl.primary
    /\ NotFound(cl)
    /\ pc' = [pc EXCEPT ![c] = "done"]
    /\ ret' = [ret EXCEPT ![c] = Returned(cl.op, digestToStore, cl.dgst, err)]
    /\ UNCHANGED <<digestToStore, pullFromInsecureRegistries, call, trace, statted, ncalls>>

\* Stat, the second findCandidateRepository failed (lines 73-77)
StatUnknown(c) ==
    LET cl == call[c] IN
    /\ pc[c] = "find"
    /\ ~cl.primary
    /\ NotFound(cl)
    /\ pc' = [pc EXCEPT ![c] = "done"]
    /\ ret' = [ret EXCEPT ![c] = Returned(cl.op, digestToStore, cl.dgst, ErrBlobUnknown)]
    /\ UNCHANGED <<digestToStore, pullFromInsecureRegistries, call, trace, statted, ncalls>>

\* the call returns to its caller
Return(c) ==
    /\ pc[c] = "done"
    /\ pc' = [pc EXCEPT ![c] = "idle"]
    /\ statted' = IF ret[c].stat # <<>> /\ ret[c].stat[1].err = nil
                  THEN statted \cup {call[c].dgst} ELSE statted
    /\ call' = [call EXCEPT ![c] = NoCall]
    /\ ret' = [ret EXCEPT ![c] = NoRet]
    /\ trace' = [trace EXCEPT ![c] = NoTrace]
    /\ UNCHANGED <<digestToStore, pullFromInsecureRegistries, ncalls>>

Step(c) ==
    \/ /\ CanCall(c)
       /\ \E op \in ReadOps, dgst \in DOMAIN digestToStore : Delegate(c, op, dgst)
    \/ /\ CanCall(c)
       /\ \E op \in Ops, dgst \in Digests, e \in ImageStreamErrors :
             StatNoImageStream(c, op, dgst, e)
    \/ /\ CanCall(c)
       /\ \E op \in Ops, dgst \in Digests, is \in ImageStreams, cached \in CachedLayers :
             \E tagOrder \in TagOrders(is) : StatBegin(c, op, dgst, is, cached, tagOrder)
    \/ /\ pc[c] = "find"
       /\ \E out \in ProbeOutcomes(call[c].dgst) : ProbeCached(c, out)
    \/ /\ pc[c] = "find"
       /\ \E repo \in DOMAIN call[c].search, out \in ProbeOutcomes(call[c].dgst) :
             ProbeSearch(c, repo, out)
    \/ /\ pc[c] = "find"
       /\ \E tagOrder \in TagOrders(call[c].is) : StatSecondary(c, tagOrder)
    \/ StatUnknown(c)
    \/ Return(c)

\* one caller at a time: the calls on the instance are sequential
Next == Step("g1")

Spec == Init /\ [][Next]_vars

(***************************************************************************)
(* Calls of the goroutines of Callers on one instance, interleaved at the  *)
(* getImageStream of Stat and at each probe; the struct has no lock.  The  *)
(* image streams differ in the annotation only and no repository is cached.*)
(***************************************************************************)
RaceTags == [t \in {"t1"} |-> TagEventList(<<rA, rB>>)]

RaceStreams ==
    { [Annotations |-> a, Status |-> [DockerImageRepository |-> rLocalIS, Tags |-> RaceTags]] :
        a \in {EmptyMap, [k \in {InsecureRepositoryAnnotation} |-> "true"]} }

NextConcurrent ==
    \E c \in Callers :
        \/ /\ CanCall(c)
           /\ \E dgst \in DOMAIN digestToStore : Delegate(c, "Get", dgst)
        \/ /\ CanCall(c)
           /\ \E dgst \in Digests : StatNoImageStream(c, "Stat", dgst, ErrNotFound)
        \/ /\ CanCall(c)
           /\ \E dgst \in Digests, is \in RaceStreams :
                 \E tagOrder \in TagOrders(is) :
                    StatBegin(c, "Stat", dgst, is, <<>>, tagOrder)
        \/ /\ pc[c] = "find"
           /\ \E repo \in DOMAIN call[c].search, out \in ProbeOutcomes(call[c].dgst) :
                 ProbeSearch(c, repo, out)
        \/ /\ pc[c] = "find"
           /\ \E tagOrder \in TagOrders(call[c].is) : StatSecondary(c, tagOrder)
        \/ StatUnknown(c)
        \/ Return(c)

SpecConcurrent == Init /\ [][NextConcurrent]_vars

(***************************************************************************)
(* identifyCandidateRepositories on its own: the image stream is drawn     *)
(* from the tag histories of at most MaxEvents events over two tags, and   *)
(* the function is applied to it in either mode.                           *)
(***************************************************************************)
rC == [path |-> <<"quay.io", "ns", "c">>, tag |-> "v2"]
rD == [path |-> <<"d">>, tag |-> ""]

EventRefs == {rEmpty, rL, rA, rA2, rB, rC, rD}

\* the histories of n events
Histories(n) == [1..n -> EventRefs]

IdentifyStream(local, h1, h2) ==
    [Annotations |-> EmptyMap,
     Status |-> [DockerImageRepository |-> local,
                 Tags |-> [t \in {"t1", "t2"} |->
                             TagEventList(IF t = "t1" THEN h1 ELSE h2)]]]

InitIdentify ==
    /\ digestToStore = EmptyMap
    /\ pullFromInsecureRegistries = FALSE
    /\ pc = [c \in Callers |-> "idle"]
    /\ \E n1 \in 0..MaxEvents : \E n2 \in 0..(MaxEvents - n1) :
          \E local \in {rLocalIS, rEmpty}, h1 \in Histories(n1), h2 \in Histories(n2) :
             call = [c \in Callers |->
                       IF c = "g1"
                       THEN [NoCall EXCEPT
                               !.is = IdentifyStream(local, h1, h2),
                               !.localRegistry = LocalRegistry(IdentifyStream(local, h1, h2))]
                       ELSE NoCall]
    /\ ret = [c \in Callers |-> NoRet]
    /\ trace = [c \in Callers |-> NoTrace]
    /\ statted = {}
    /\ ncalls = 0

\* the call identifyCandidateRepositories(is, localRegistry, primary) of lines 63 and 69
Identify(c, primary, tagOrder) ==
    LET cl == call[c] IN
    /\ pc[c] = "idle"
    /\ pc' = [pc EXCEPT ![c] = "identified"]
    /\ call' = [call EXCEPT
                  ![c].search = identifyCandidateRepositories(cl.is, cl.localRegistry,
                                                              primary, tagOrder),
                  ![c].primary = primary]
    /\ UNCHANGED <<digestToStore, pullFromInsecureRegistries, ret, trace, statted, ncalls>>

NextIdentify ==
    \E primary \in BOOLEAN, tagOrder \in TagOrders(call["g1"].is) :
        Identify("g1", primary, tagOrder)

SpecIdentify == InitIdentify /\ [][NextIdentify]_vars

(***************************************************************************)
(* Properties.                                                             *)
(***************************************************************************)
Range(s) == {s[i] : i \in DOMAIN s}
Last(s) == s[Len(s)]
FirstIndex(s, x) == CHOOSE i \in DOMAIN s : s[i] = x /\ \A j \in 1..(i - 1) : s[j] # x

\* the keys of the primary candidates of the call cl, as identifyCandidateRepositories
\* builds them
PrimaryKeys(cl) ==
    DOMAIN identifyCandidateRepositories(cl.is, cl.localRegistry, TRUE,
                                         CHOOSE o \in TagOrders(cl.is) : TRUE)

\* the Stat of the call of c has returned
StatReturned(c) == pc[c] = "done" /\ ret[c].stat # <<>>
StatResult(c) == ret[c].stat[1]

\* the call of c makes a probe in this step: the probe is Last(trace'[c].probes)
Probes(c) == Len(trace'[c].probes) = Len(trace[c].probes) + 1

\* the blob store a probe obtained
StoreOf(probe) == [url |-> probe.url, name |-> probe.name]

(* C1: within one Stat call no repository key is probed more than once, and  *)
(* the candidates of the second findCandidateRepository call hold no key of  *)
(* the primary candidates as identifyCandidateRepositories built them.       *)
C1_NoRepositoryProbedTwice ==
    \A c \in Callers :
        /\ \A i, j \in DOMAIN trace[c].probes :
              i # j => trace[c].probes[i].repo # trace[c].probes[j].repo
        /\ (pc[c] = "find" /\ ~call[c].primary)
              => DOMAIN call[c].search \cap PrimaryKeys(call[c]) = {}

(* C2, as claimed: an entry of digestToStore is never replaced.              *)
C2_EntryNeverReplaced ==
    [][\A d \in DOMAIN digestToStore :
          d \in DOMAIN digestToStore' /\ digestToStore'[d] = digestToStore[d]]_vars

(* C2, amended: an entry of digestToStore for D is never removed, and it is  *)
(* replaced only by a successful probe of a Stat(D) called as such, by the   *)
(* store of the repository probed; Get, Open and ServeBlob replace no entry. *)
C2_EntryReplacedOnlyByStat ==
    [][\A d \in DOMAIN digestToStore :
          /\ d \in DOMAIN digestToStore'
          /\ digestToStore'[d] # digestToStore[d]
                => \E c \in Callers :
                      /\ call[c].op = "Stat"
                      /\ call[c].dgst = d
                      /\ Len(trace'[c].probes) = Len(trace[c].probes) + 1
                      /\ Last(trace'[c].probes).err = nil
                      /\ digestToStore'[d] = StoreOf(Last(trace'[c].probes))]_vars

\* a call has replaced the entry that digestToStore held for a digest
C2_Witness ==
    \E c \in Callers :
        /\ pc[c] = "done"
        /\ \E d \in DOMAIN trace[c].store0 : digestToStore[d] # trace[c].store0[d]

(* C3, as claimed: when a probe fails with an error other than blob unknown, *)
(* Stat returns that error.                                                  *)
C3_ProbeErrorReturned ==
    \A c \in Callers :
        StatReturned(c) =>
            \A i \in DOMAIN trace[c].probes :
                trace[c].probes[i].err \notin {nil, ErrBlobUnknown}
                    => StatResult(c).err = trace[c].probes[i].err

(* C3, amended: the error of a failed probe, blob unknown or not, is never   *)
(* returned: Stat goes on with the next candidate and returns the descriptor *)
(* of the probe that succeeds, or ErrBlobUnknown when none does; a failed    *)
(* probe makes no RememberDigest call.                                       *)
C3_ProbeErrorsAbsorbed ==
    \A c \in Callers :
        (StatReturned(c) /\ trace[c].probes # <<>>) =>
            LET probes == trace[c].probes
                last == Last(probes)
            IN /\ \A i \in 1..(Len(probes) - 1) : probes[i].err # nil
               /\ StatResult(c).err = IF last.err = nil THEN nil ELSE ErrBlobUnknown
               /\ last.err # nil => trace[c].remembers = <<>>
               /\ Len(trace[c].remembers) <= 1

\* a probe failed with a transport error and Stat returned ErrBlobUnknown
C3_Witness ==
    \E c \in Callers :
        /\ StatReturned(c)
        /\ StatResult(c).err = ErrBlobUnknown
        /\ \E i \in DOMAIN trace[c].probes : trace[c].probes[i].err = ErrTransport

(* C4: a Get, Open or ServeBlob without an entry, whose Stat succeeds, is    *)
(* delegated to the store that Stat saved, with the digest of the            *)
(* descriptor, and does not return ErrBlobUnknown.                           *)
C4_ReadDelegatedAfterStat ==
    \A c \in Callers :
        (StatReturned(c) /\ call[c].op \in ReadOps /\ StatResult(c).err = nil) =>
            /\ ret[c].err # ErrBlobUnknown
            /\ ret[c].delegated =
                  <<[store |-> StoreOf(Last(trace[c].probes)),
                     dgst |-> StatResult(c).desc[1]]>>

(* C5, as claimed: a repository X that the cache reports and that is a       *)
(* primary candidate is probed before any other primary candidate.           *)
C5_CachedProbedBeforeAnyOther ==
    \A c \in Callers :
        \A X \in Range(call[c].cached) \cap PrimaryKeys(call[c]) :
            \A i \in DOMAIN trace[c].probes :
                (trace[c].probes[i].primary /\ trace[c].probes[i].repo # X)
                    => \E j \in 1..(i - 1) :
                          trace[c].probes[j].primary /\ trace[c].probes[j].repo = X

(* C5, amended: a repository X that the cache reports and that is a primary  *)
(* candidate is probed before any primary candidate the cache does not       *)
(* report and before any that the cache reports after X; the cache-reported  *)
(* primary candidates are probed in the order of the cache.                  *)
C5_CachedProbedInCacheOrder ==
    \A c \in Callers :
        LET probes == trace[c].probes
            cached == call[c].cached
            hinted == Range(cached) \cap PrimaryKeys(call[c])
            Before(X, i) == \E j \in 1..(i - 1) : probes[j].primary /\ probes[j].repo = X
        IN \A i \in DOMAIN probes :
              probes[i].primary =>
                  IF probes[i].repo \in Range(cached)
                  THEN /\ probes[i].hinted
                       /\ \A X \in hinted :
                             FirstIndex(cached, X) < FirstIndex(cached, probes[i].repo)
                                 => Before(X, i)
                  ELSE /\ ~probes[i].hinted
                       /\ \A X \in hinted : Before(X, i)

\* the cache reported two primary candidates: both were probed, in the order of the
\* cache, and a candidate that the cache did not report was probed after them
C5_Witness ==
    \E c \in Callers :
        LET probes == trace[c].probes
            cached == call[c].cached
        IN /\ Len(cached) = 2
           /\ cached[1] # cached[2]
           /\ Range(cached) \subseteq PrimaryKeys(call[c])
           /\ Len(probes) >= 2
           /\ probes[1].repo = cached[1]
           /\ probes[2].repo = cached[2]

\* the cache reported one of two primary candidates: it was probed first, the other next
C5_WitnessUnhinted ==
    \E c \in Callers :
        LET probes == trace[c].probes
        IN /\ Len(probes) >= 2
           /\ probes[1].primary /\ probes[1].hinted
           /\ probes[2].primary /\ ~probes[2].hinted

(* C6: a Stat that succeeds by a probe of the loop over search calls         *)
(* RememberDigest once, with the digest asked for, the ttl and the key of    *)
(* the repository probed; one that succeeds by a probe of a cached           *)
(* repository does not call it.                                              *)
C6_RememberedOnceBySearch ==
    \A c \in Callers :
        (StatReturned(c) /\ StatResult(c).err = nil) =>
            LET last == Last(trace[c].probes)
            IN trace[c].remembers =
                  IF last.hinted THEN <<>>
                  ELSE << <<call[c].dgst, blobrepositorycachettl, last.repo>> >>

\* a Stat succeeded by a probe of the loop over search, after a probe that failed
C6_Witness ==
    \E c \in Callers :
        /\ StatReturned(c)
        /\ StatResult(c).err = nil
        /\ Len(trace[c].probes) >= 2
        /\ ~Last(trace[c].probes).hinted
        /\ trace[c].remembers # <<>>

\* a Stat succeeded by a probe of a cached repository, in the second call
C6_WitnessHinted ==
    \E c \in Callers :
        /\ StatReturned(c)
        /\ StatResult(c).err = nil
        /\ Last(trace[c].probes).hinted
        /\ ~Last(trace[c].probes).primary

(* C7: after a Stat(D) that succeeded, a Get(D), Open(D) or ServeBlob(D)     *)
(* calls neither the retriever, nor getImageStream, nor the location cache:  *)
(* it is handed to the store digestToStore holds for D.                      *)
C7_ReadAfterStatIsDirect ==
    \A c \in Callers :
        (pc[c] = "done" /\ call[c].op \in ReadOps /\ call[c].dgst \in statted) =>
            /\ trace[c].probes = <<>>
            /\ trace[c].fetches = 0
            /\ trace[c].cacheReads = 0
            /\ trace[c].remembers = <<>>
            /\ call[c].dgst \in DOMAIN digestToStore
            /\ ret[c].err = nil
            /\ ret[c].delegated =
                  <<[store |-> digestToStore[call[c].dgst], dgst |-> call[c].dgst]>>

\* a Get, Open or ServeBlob of a digest has returned after a Stat of it succeeded
C7_Witness ==
    \E c \in Callers :
        pc[c] = "done" /\ call[c].op \in ReadOps /\ call[c].dgst \in statted

(* C8: every probe of a Stat passes to the retriever the insecure flag that  *)
(* the annotation of the image stream fetched by that Stat gives: true when  *)
(* the annotation is "true", false when it is anything else or absent.       *)
C8_ProbeUsesOwnInsecureFlag ==
    \A c \in Callers :
        \A i \in DOMAIN trace[c].probes :
            trace[c].probes[i].insecure =
                (/\ InsecureRepositoryAnnotation \in DOMAIN call[c].is.Annotations
                 /\ call[c].is.Annotations[InsecureRepositoryAnnotation] = "true")

\* the flag was true when the Stat was called, its image stream has no annotation,
\* and it has probed
C8_Witness ==
    \E c \in Callers :
        /\ trace[c].insecure0
        /\ trace[c].probes # <<>>
        /\ InsecureRepositoryAnnotation \notin DOMAIN call[c].is.Annotations

(* C9: when getImageStream fails, Stat returns ErrBlobUnknown for not found  *)
(* and forbidden and the error itself otherwise; it probes nothing, neither  *)
(* reads nor writes the location cache, and leaves digestToStore and         *)
(* pullFromInsecureRegistries as they were.                                  *)
C9_ImageStreamFailure ==
    \A c \in Callers :
        (StatReturned(c) /\ trace[c].isErr # nil) =>
            /\ StatResult(c).err =
                  IF trace[c].isErr \in {ErrNotFound, ErrForbidden}
                  THEN ErrBlobUnknown ELSE trace[c].isErr
            /\ trace[c].probes = <<>>
            /\ trace[c].cacheReads = 0
            /\ trace[c].remembers = <<>>
            /\ digestToStore = trace[c].store0
            /\ pullFromInsecureRegistries = trace[c].insecure0

\* getImageStream was forbidden to a Stat called with an entry and the flag set
C9_Witness ==
    \E c \in Callers :
        /\ StatReturned(c)
        /\ trace[c].isErr = ErrForbidden
        /\ trace[c].store0 # EmptyMap
        /\ trace[c].insecure0

\* no tag event of the image stream gives a candidate: it is empty, does not parse,
\* or is of the local registry
NoCandidates(is) ==
    LET local == ParseDockerImageReference(is.Status.DockerImageRepository)
    IN \A t \in DOMAIN is.Status.Tags :
          \A i \in DOMAIN is.Status.Tags[t].Items :
              LET parsed == ParseDockerImageReference(
                                is.Status.Tags[t].Items[i].DockerImageReference)
              IN \/ parsed.err # nil
                 \/ /\ local.err = nil
                    /\ local.ref.Registry # ""
                    /\ parsed.ref.Registry = local.ref.Registry

(* C10: a Stat of an image stream without candidates (no tags, or only tag   *)
(* events that are empty, do not parse or are of the local registry)         *)
(* returns ErrBlobUnknown without a probe and without a RememberDigest call, *)
(* whatever the location cache reports.                                      *)
C10_NoCandidatesNoProbe ==
    \A c \in Callers :
        (StatReturned(c) /\ trace[c].isErr = nil /\ NoCandidates(call[c].is)) =>
            /\ StatResult(c).err = ErrBlobUnknown
            /\ trace[c].probes = <<>>
            /\ trace[c].remembers = <<>>

\* such a Stat has returned, of an image stream with tag events, the cache reporting
\* repositories
C10_Witness ==
    \E c \in Callers :
        /\ StatReturned(c)
        /\ trace[c].isErr = nil
        /\ trace[c].fetches = 1
        /\ NoCandidates(call[c].is)
        /\ \E t \in DOMAIN call[c].is.Status.Tags : call[c].is.Status.Tags[t].Items # <<>>
        /\ call[c].cached # <<>>

(***************************************************************************)
(* identifyCandidateRepositories.                                          *)
(***************************************************************************)
\* the key under which the event reference spec is searched
KeyOf(spec) ==
    Exact(AsRepository(DockerClientDefaults(ParseDockerImageReference(spec).ref)))

\* spec parses, and does not name the registry of the image stream itself
Eligible(spec, localRegistry) ==
    LET parsed == ParseDockerImageReference(spec)
    IN /\ parsed.err = nil
       /\ ~(localRegistry # "" /\ parsed.ref.Registry = localRegistry)

\* the keys of the first event of every tag (primary), of the later events (secondary)
ExpectedKeys(is, primary) ==
    UNION { { KeyOf(is.Status.Tags[t].Items[i].DockerImageReference) :
                i \in { j \in DOMAIN is.Status.Tags[t].Items :
                          /\ IF primary THEN j = 1 ELSE j >= 2
                          /\ Eligible(is.Status.Tags[t].Items[j].DockerImageReference,
                                      LocalRegistry(is)) } } :
            t \in DOMAIN is.Status.Tags }

ExampleTags == [t \in {"t1", "t2"} |->
                  TagEventList(IF t = "t1" THEN <<rA, rB, rC>> ELSE <<rD>>)]
ExamplePrimary == {<<"docker.io", "ns", "a">>, <<"docker.io", "library", "d">>}
ExampleSecondary == {<<"quay.io", "ns", "b">>, <<"quay.io", "ns", "c">>}

\* C11: identifyCandidateRepositories returns, in primary mode, exactly the keys of
\* the first event of every tag that has events, and in secondary mode exactly the
\* keys of the events after the first of every tag; unparsable references and
\* references to the local registry are left out.  For {t1: [A, B, C], t2: [D]} the
\* primary keys are those of A and D, the secondary keys those of B and C.
C11_IdentifiedKeys ==
    LET cl == call["g1"] IN
    pc["g1"] = "identified" =>
        /\ DOMAIN cl.search = ExpectedKeys(cl.is, cl.primary)
        /\ \A k \in DOMAIN cl.search : Exact(AsRepository(cl.search[k])) = k
        /\ cl.is.Status.Tags = ExampleTags =>
              DOMAIN cl.search = IF cl.primary THEN ExamplePrimary ELSE ExampleSecondary

C11_Witness ==
    LET cl == call["g1"] IN
    /\ pc["g1"] = "identified"
    /\ cl.is.Status.Tags = ExampleTags
    /\ ~cl.primary
    /\ DOMAIN cl.search = ExampleSecondary

C11_WitnessCollapsed ==
    LET cl == call["g1"] IN
    /\ pc["g1"] = "identified"
    /\ cl.primary
    /\ cl.localRegistry # ""
    /\ cl.is.Status.Tags = [t \in {"t1", "t2"} |->
                              TagEventList(IF t = "t1" THEN <<rA, rL>> ELSE <<rA2, rEmpty>>)]
    /\ DOMAIN cl.search = {<<"docker.io", "ns", "a">>}

(***************************************************************************)
(* The local registry.                                                     *)
(***************************************************************************)
\* the events of the image stream is that refer to the registry named registry
LocalEvents(is, registry) ==
    { <<t, i>> \in (DOMAIN is.Status.Tags) \X (1..3) :
        /\ i \in DOMAIN is.Status.Tags[t].Items
        /\ LET parsed == ParseDockerImageReference(
                             is.Status.Tags[t].Items[i].DockerImageReference)
           IN parsed.err = nil /\ parsed.ref.Registry = registry }

\* C12: when the image stream names its own registry, no candidate of a Stat call is
\* a repository on that registry and no probe goes to that registry, whatever the
\* tag events of the image stream refer to.
C12_LocalRegistryNeverProbed ==
    \A c \in Callers :
        LET cl == call[c]
            local == ParseDockerImageReference(cl.is.Status.DockerImageRepository)
        IN (pc[c] # "idle" /\ local.err = nil) =>
              /\ \A k \in DOMAIN cl.search : cl.search[k].Registry # local.ref.Registry
              /\ \A i \in DOMAIN trace[c].probes :
                    trace[c].probes[i].url # <<"https", local.ref.Registry>>

C12_Witness ==
    LET cl == call["g1"]
        local == ParseDockerImageReference(cl.is.Status.DockerImageRepository)
    IN /\ pc["g1"] = "done"
       /\ local.err = nil
       /\ LocalEvents(cl.is, local.ref.Registry) # {}
       /\ ~cl.primary
       /\ \E i \in DOMAIN trace["g1"].probes : ~trace["g1"].probes[i].primary

(***************************************************************************)
(* The cached repositories within one findCandidateRepository.             *)
(***************************************************************************)
\* C13: a cached repository whose probe fails is deleted from search in the step of
\* the probe, and no later probe of the same findCandidateRepository, of the loop
\* over the cached repositories or of the loop over search, is of a repository
\* whose cached probe has failed, also when the cache reports it more than once.
C13_FailedHintNotProbedAgain ==
    [][\A c \in Callers :
          Probes(c) =>
              LET old == trace[c].probes
                  probe == Last(trace'[c].probes)
              IN /\ (probe.hinted /\ probe.err # nil) =>
                       probe.repo \notin DOMAIN call'[c].search
                 /\ \A j \in DOMAIN old :
                       (old[j].hinted /\ old[j].err # nil /\ old[j].primary = probe.primary)
                           => old[j].repo # probe.repo]_vars

C13_Witness ==
    LET probes == trace["g1"].probes
        cached == call["g1"].cached
    IN /\ Len(cached) >= 2
       /\ cached[1] = cached[2]
       /\ Len(probes) >= 2
       /\ probes[1].hinted /\ probes[1].err # nil /\ probes[1].repo = cached[1]
       /\ probes[2].primary /\ ~probes[2].hinted

(***************************************************************************)
(* Exhaustion of the candidates.                                           *)
(***************************************************************************)
\* the repositories the call of c has probed
Probed(c) == {trace[c].probes[i].repo : i \in DOMAIN trace[c].probes}

\* C14: a probe that fails does not end the call; once the image stream has been
\* fetched, Stat returns an error, ErrBlobUnknown, only when every primary and every
\* secondary candidate has been probed in that call and every probe has failed, and
\* it returns no error with a probe that succeeds.
C14_UnknownOnlyWhenExhausted ==
    [][\A c \in Callers :
          /\ (Probes(c) /\ Last(trace'[c].probes).err # nil) => pc'[c] = "find"
          /\ (Probes(c) /\ Last(trace'[c].probes).err = nil) =>
                (pc'[c] = "done" /\ ret'[c].stat[1].err = nil)
          /\ (pc[c] = "find" /\ pc'[c] = "done" /\ ret'[c].stat[1].err # nil) =>
                /\ ret'[c].stat[1].err = ErrBlobUnknown
                /\ ExpectedKeys(call[c].is, TRUE) \cup ExpectedKeys(call[c].is, FALSE)
                       \subseteq Probed(c)
                /\ \A i \in DOMAIN trace[c].probes : trace[c].probes[i].err # nil
                /\ trace'[c].probes = trace[c].probes]_vars

\* Stat went on after failed probes of both kinds of error, through the candidates
\* of both sets, and returned ErrBlobUnknown
C14_Witness ==
    LET probes == trace["g1"].probes
        is == call["g1"].is
    IN /\ StatReturned("g1")
       /\ StatResult("g1").err = ErrBlobUnknown
       /\ ExpectedKeys(is, TRUE) # {}
       /\ ExpectedKeys(is, FALSE) \ ExpectedKeys(is, TRUE) # {}
       /\ \E i, j \in DOMAIN probes :
             /\ probes[i].err = ErrTransport /\ probes[i].primary
             /\ probes[j].err = ErrBlobUnknown /\ ~probes[j].primary

\* Stat went on after a failed probe and returned the descriptor of a later one
C14_WitnessSuccess ==
    LET probes == trace["g1"].probes IN
    /\ StatReturned("g1")
    /\ StatResult("g1").err = nil
    /\ Len(probes) >= 2
    /\ probes[1].err = ErrTransport

(***************************************************************************)
(* Primary candidates before secondary ones.                               *)
(***************************************************************************)
\* the primary candidates of which a probe of the primary search has failed
PrimariesFailed(c) ==
    {trace[c].probes[j].repo :
        j \in {j \in DOMAIN trace[c].probes :
                  trace[c].probes[j].primary /\ trace[c].probes[j].err # nil}}

\* C15: the secondary search is begun, and a candidate of it is probed, only when
\* every primary candidate has been probed and has failed; a probe of the primary
\* search is of a primary candidate and follows no probe of the secondary search,
\* and when it succeeds its blob store is the one saved for the requested digest and
\* its success is what Stat returns.
C15_PrimaryBeforeSecondary ==
    [][\A c \in Callers :
          /\ (pc[c] = "find" /\ call[c].primary /\ ~call'[c].primary) =>
                ExpectedKeys(call[c].is, TRUE) \subseteq PrimariesFailed(c)
          /\ Probes(c) =>
                LET old == trace[c].probes
                    probe == Last(trace'[c].probes)
                IN IF probe.primary
                   THEN /\ \A j \in DOMAIN old : old[j].primary
                        /\ probe.repo \in ExpectedKeys(call[c].is, TRUE)
                        /\ probe.err = nil =>
                              /\ pc'[c] = "done"
                              /\ ret'[c].stat # <<>> /\ ret'[c].stat[1].err = nil
                              /\ digestToStore'[call[c].dgst] = StoreOf(probe)
                   ELSE ExpectedKeys(call[c].is, TRUE) \subseteq PrimariesFailed(c)]_vars

\* a secondary candidate was probed after two primary candidates had failed
C15_Witness ==
    LET probes == trace["g1"].probes IN
    /\ Cardinality(ExpectedKeys(call["g1"].is, TRUE)) = 2
    /\ Len(probes) >= 3
    /\ ~probes[Len(probes)].primary
    /\ probes[Len(probes)].err = nil

(***************************************************************************)
(* The first success ends the search.                                      *)
(***************************************************************************)
\* C16: the probes of a Stat call are made one at a time, each after the one before
\* has failed; with a probe that succeeds Stat returns the descriptor of that probe,
\* and no probe follows, so a call has at most one successful probe, its last.
C16_FirstSuccessIsLast ==
    [][\A c \in Callers :
          LET old == trace[c].probes
              new == trace'[c].probes
          IN \/ new = old
             \/ new = <<>>
             \/ /\ Probes(c)
                /\ SubSeq(new, 1, Len(old)) = old
                /\ \A i \in DOMAIN old : old[i].err # nil
                /\ pc[c] = "find"
                /\ Last(new).err = nil =>
                      /\ pc'[c] = "done"
                      /\ ret'[c].stat = <<[err |-> nil, desc |-> <<Last(new).Digest>>]>>]_vars

\* the third probe of a call succeeded, with a descriptor of another digest than
\* the requested one
C16_Witness ==
    LET probes == trace["g1"].probes IN
    /\ Len(probes) = 3
    /\ probes[3].err = nil
    /\ probes[3].Digest # call["g1"].dgst
    /\ StatReturned("g1")

(***************************************************************************)
(* Interleaved calls.                                                      *)
(***************************************************************************)
\* the image stream is carries the annotation with the value "true"
Annotated(is) ==
    /\ InsecureRepositoryAnnotation \in DOMAIN is.Annotations
    /\ is.Annotations[InsecureRepositoryAnnotation] = "true"

\* a probe of the call of c passed another flag than the image stream of the call asks
WrongFlag(c) ==
    \E i \in DOMAIN trace[c].probes : trace[c].probes[i].insecure # Annotated(call[c].is)

\* the digests under which the call of c has written rbs.digestToStore
Written(c) ==
    IF \E i \in DOMAIN trace[c].probes : trace[c].probes[i].err = nil
    THEN {call[c].dgst} ELSE {}

\* C17: a call during which no other call was in progress passes to its probes the
\* flag of the image stream it fetched, and no other call in progress has written
\* rbs.digestToStore for its digest; both fail only for calls that overlap.
C17_SequentialCallsDoNotRace ==
    \A c \in Callers :
        (pc[c] # "idle" /\ ~trace[c].overlapped) =>
            /\ ~WrongFlag(c)
            /\ \A o \in Callers \ {c} : Written(o) = {}

\* two interleaved calls: one has probed with the flag of the other's image stream,
\* and both have written rbs.digestToStore for the same digest
C17_Witness ==
    \E c \in Callers :
        /\ WrongFlag(c)
        /\ \A o \in Callers : Written(o) = Written(c) /\ Written(o) # {}

(***************************************************************************)
(* The contents of rbs.digestToStore, calls being sequential.              *)
(***************************************************************************)
\* the probes of the call of c that succeeded
Succeeded(c) == {i \in DOMAIN trace[c].probes : trace[c].probes[i].err = nil}

\* C18: rbs.digestToStore has an entry only for a digest for which a probe has
\* succeeded, under the requested digest, and the entry is the blob store of the
\* probe that succeeded last for it: a call changes no other entry, and a Stat that
\* returns a descriptor leaves an entry for the requested digest.
C18_StoreHoldsLastSuccess ==
    /\ DOMAIN digestToStore = statted \cup UNION {Written(c) : c \in Callers}
    /\ \A c \in Callers :
          pc[c] # "idle" =>
              /\ digestToStore =
                    IF Succeeded(c) = {} THEN trace[c].store0
                    ELSE LET last == CHOOSE i \in Succeeded(c) : \A j \in Succeeded(c) : j <= i
                         IN MapPut(trace[c].store0, call[c].dgst, StoreOf(trace[c].probes[last]))
              /\ (StatReturned(c) /\ StatResult(c).err = nil) =>
                    /\ Succeeded(c) # {}
                    /\ call[c].dgst \in DOMAIN digestToStore

\* a Stat succeeded for a digest that had an entry, at another repository than the
\* one of the entry, with a descriptor of another digest
C18_Witness ==
    LET probes == trace["g1"].probes
        dgst == call["g1"].dgst
    IN /\ StatReturned("g1")
       /\ StatResult("g1").err = nil
       /\ dgst \in DOMAIN trace["g1"].store0
       /\ StoreOf(Last(probes)) # trace["g1"].store0[dgst]
       /\ Last(probes).Digest # dgst
       /\ digestToStore[dgst] = StoreOf(Last(probes))

====
